---- MODULE Spec2Model ----
(***************************************************************************)
(* Model of the lrucache package: the lock-based Cache (an LRU store       *)
(* behind one sync.RWMutex, with purge notification and a miss handler)    *)
(* and the two OnMissHandler wrappers, NoConcurrentDupes and               *)
(* ThrottleConcurrency.                                                    *)
(***************************************************************************)
EXTENDS Integers, Sequences, FiniteSets, TLC

\* ------------------------------------------------------------------ bounds
MaxKey == 3
MaxValSize == 2
MaxCap == 2
MaxPurged == 2
\* the concurrent specification: callers, and the keys and sizes they use
NumProcs == 2
MaxConcKey == 2
MaxConcSize == 1
MaxConcCap == 1

\* the wrappers: callers, keys, handler invocations in all, quit signals,
\* and the largest maxconcurrent
NumWrapCallers == 3
MaxWrapKey == 2
MaxCalls == 2
MaxQuits == 1
MaxLimit == 2
CapSlack == 5

\* TestSize: New(100), for i := 1; i < 15; i++
TestSizeCap == 100
TestSizeKeys == 14

Keys == 1..MaxKey
WrapCallers == 1..NumWrapCallers
WrapKeys == 1..MaxWrapKey
Reqs == 1..(NumWrapCallers + 1)
Limits == 0..MaxLimit
Caps == 0..MaxCap
Procs == 1..NumProcs
ConcKeys == 1..MaxConcKey
ConcCaps == 0..MaxConcCap

\* the nil pointer, the absent key and the absent process
Nil == 0

\* ------------------------------------------------------------- Cacheable
\* A Cacheable is modelled by what the cache can observe of it: whether it
\* is nil, and whether it implements SizeAware / NotifyPurge.  "plain" is a
\* value implementing neither (an int, a string); "sized" implements both
\* (the tests' varsize and purgeable).
NilVal == [kind |-> "nil", size |-> 0]
Plain == [kind |-> "plain", size |-> 0]
Sized(n) == [kind |-> "sized", size |-> n]
\* the tests' varsize: SizeAware, no NotifyPurge
VarSize(n) == [kind |-> "varsize", size |-> n]
Values == {Plain} \cup {Sized(n) : n \in 0..MaxValSize}
ConcValues == {Plain} \cup {Sized(n) : n \in 0..MaxConcSize}

getSize(x) == IF x.kind \in {"sized", "varsize"} THEN x.size ELSE 1

\* PurgeReason
CACHEFULL == 0
EXPLICITDELETE == 1
KEYCOLLISION == 2

\* errors
NoErr == "nil"
ErrNotFound == "ErrNotFound"
HandlerErr == "handler error"

\* OnMissHandler values: nil or a handler
NilFn == "nil"
Handler == "handler"

VARIABLES
  c,        \* the Cache struct: size, maxSize, entries, mostRU, leastRU, onMiss
  heap,     \* the cacheEntry objects, one slot per id
  lock,     \* c.lock: the writer and the readers holding the RWMutex
  pc,       \* per caller: where it is in which method, with its arguments
  panicked, \* a goroutine panicked: the program is gone
  obs,      \* what the step just taken returned and which OnPurge calls it made
  touched,  \* history: keys by recency of insertion/access, last maxSize of them
  uniform   \* history: only size-1 Sets and Get hits happened, capacity > 0

\* NoConcurrentDupes
VARIABLES
  opchan,   \* the wrapper's variable opchan: "chan" or "nil"
  closed,   \* the request channel has been closed
  quit,     \* number of values in the quit channel (capacity 1)
  quits,    \* history: values sent down quit so far
  wpc,      \* per caller of wrap: where it is, its key and its request
  ml,       \* nocondupesMainloop: where it is, its own opchan, the reply in hand
  waiting,  \* the map waiting: key -> newest reply channel
  cons,     \* the consumer goroutines, one per request (and reply channel)
  seeds,    \* the seed goroutines: the invocations of f
  calls,    \* history: invocations of f launched per key
  produced, \* history: the error each invocation of f returned
  wobs,     \* what the step just taken returned to a caller of wrap
  wpanicked \* a goroutine panicked

\* ThrottleConcurrency
VARIABLES
  limit,    \* maxconcurrent
  block,    \* number of values in the channel block
  tpc,      \* per caller of the wrapper: where it is, and f's result
  tobs      \* what the step just taken returned

\* TestSize
VARIABLES
  ti        \* where the test is: its statements in order, from 1

cacheVars == <<c, heap, lock, pc, panicked, obs, touched, uniform>>
dedupVars == <<opchan, closed, quit, quits, wpc, ml, waiting, cons, seeds, calls,
               produced, wobs, wpanicked>>
throttleVars == <<limit, block, tpc, tobs>>
testVars == <<ti>>
vars == <<cacheVars, dedupVars, throttleVars, testVars>>

\* cacheEntry; the payload's purged counter is the state of the payload
\* object (as the tests' purgeable.purged), counting OnPurge invocations.
NoEntry == [payload |-> NilVal, older |-> Nil, younger |-> Nil, purged |-> 0]

Idle == [at |-> "idle", id |-> Nil, val |-> NilVal, n |-> 0]
NoObs == [op |-> "none", id |-> Nil, val |-> NilVal, err |-> NoErr, n |-> 0,
          purges |-> <<>>, dangling |-> FALSE, herr |-> NoErr]

\* ------------------------------------------------ the LRU store (no locks)
\* The store functions act on a machine record m: the Cache struct, the
\* entry heap, the OnPurge calls made so far and whether a nil pointer was
\* dereferenced (after which nothing more executes).
Machine == [c |-> c, heap |-> heap, purges |-> <<>>, panicked |-> FALSE,
            dangling |-> FALSE]

Fault(m) == [m EXCEPT !.panicked = TRUE]

\* some live pointer still refers to entry e
Referenced(m, e) ==
  \/ m.c.mostRU = e
  \/ m.c.leastRU = e
  \/ \E k \in m.c.entries \ {e} : m.heap[k].older = e \/ m.heap[k].younger = e

safeOnPurge(m, e, why) ==
  IF m.heap[e].payload.kind = "sized"
  THEN LET n == m.heap[e].purged + 1
       IN [m EXCEPT !.heap[e].purged = n,
                    !.purges = Append(@, [id |-> e, why |-> why, n |-> n])]
  ELSE m

\* mutant: the size of the removed value stays in c.size
removeEntryKeepsSize(m, e) ==
  LET m1 == [m EXCEPT !.c.entries = @ \ {e}]
      m2 == IF m1.heap[e].older = Nil
            THEN [m1 EXCEPT !.c.leastRU = m1.heap[e].younger]
            ELSE [m1 EXCEPT !.heap[m1.heap[e].older].younger = m1.heap[e].younger]
      m3 == IF m2.heap[e].younger = Nil
            THEN [m2 EXCEPT !.c.mostRU = m2.heap[e].older]
            ELSE [m2 EXCEPT !.heap[m2.heap[e].younger].older = m2.heap[e].older]
  IN [m3 EXCEPT !.dangling = @ \/ Referenced(m3, e)]

removeEntry(m, e) ==
  LET m1 == [m EXCEPT !.c.entries = @ \ {e}]
      m2 == IF m1.heap[e].older = Nil
            THEN [m1 EXCEPT !.c.leastRU = m1.heap[e].younger]
            ELSE [m1 EXCEPT !.heap[m1.heap[e].older].younger = m1.heap[e].younger]
      m3 == IF m2.heap[e].younger = Nil
            THEN [m2 EXCEPT !.c.mostRU = m2.heap[e].older]
            ELSE [m2 EXCEPT !.heap[m2.heap[e].younger].older = m2.heap[e].older]
      m4 == [m3 EXCEPT !.c.size = @ - getSize(m3.heap[e].payload)]
  IN [m4 EXCEPT !.dangling = @ \/ Referenced(m4, e)]

\* mutant: the eviction reports the reason of a Delete
purgeLRUAsDelete(m) ==
  IF m.c.leastRU = Nil
  THEN Fault(m)
  ELSE removeEntry(safeOnPurge(m, m.c.leastRU, EXPLICITDELETE), m.c.leastRU)

purgeLRU(m) ==
  IF m.c.leastRU = Nil
  THEN Fault(m)
  ELSE removeEntry(safeOnPurge(m, m.c.leastRU, CACHEFULL), m.c.leastRU)

\* mutant: the loop stops at the last entry of the list
RECURSIVE trimLoopKeepsLast(_)
trimLoopKeepsLast(m) ==
  IF m.panicked THEN m
  ELSE IF m.c.size > m.c.maxSize /\ m.c.leastRU # m.c.mostRU
       THEN trimLoopKeepsLast(purgeLRU(m))
  ELSE m

\* mutant: the loop goes on while the size is not below the capacity
RECURSIVE trimLoopEager(_)
trimLoopEager(m) ==
  IF m.panicked THEN m
  ELSE IF m.c.size >= m.c.maxSize THEN trimLoopEager(purgeLRU(m))
  ELSE m

RECURSIVE trimLoop(_)
trimLoop(m) ==
  IF m.panicked THEN m
  ELSE IF m.c.size > m.c.maxSize THEN trimLoop(purgeLRU(m))
  ELSE m

\* mutant: one eviction at most, an if where the loop is
trimCacheOnce(m) ==
  IF m.c.maxSize <= 0 \/ m.c.size <= m.c.maxSize THEN m ELSE purgeLRU(m)

trimCache(m) ==
  IF m.c.maxSize <= 0 THEN m ELSE trimLoop(m)

\* the append of a fresh entry e as most recently used (lines 191-202)
linkMostRU(m, e) ==
  IF m.c.leastRU = Nil
  THEN [m EXCEPT !.c.leastRU = e, !.c.mostRU = e,
                 !.heap[e].younger = Nil, !.heap[e].older = Nil]
  ELSE IF m.c.mostRU = Nil
       THEN Fault(m)
       ELSE [m EXCEPT !.heap[m.c.mostRU].younger = e,
                      !.heap[e].older = m.c.mostRU,
                      !.c.mostRU = e]

\* mutant: no early return for a size of 0, the entry is linked like any other
directSetLinksAll(m, id, payload) ==
  LET m1 == IF id \in m.c.entries
            THEN removeEntry(safeOnPurge(m, id, KEYCOLLISION), id)
            ELSE m
      m2 == [m1 EXCEPT !.heap[id] = [NoEntry EXCEPT !.payload = payload],
                       !.c.entries = @ \cup {id}]
      m3 == linkMostRU(m2, id)
  IN IF m3.panicked THEN m3
     ELSE trimCache([m3 EXCEPT !.c.size = @ + getSize(payload)])

directSet(m, id, payload) ==
  LET m1 == IF id \in m.c.entries
            THEN removeEntry(safeOnPurge(m, id, KEYCOLLISION), id)
            ELSE m
      m2 == [m1 EXCEPT !.heap[id] = [NoEntry EXCEPT !.payload = payload],
                       !.c.entries = @ \cup {id}]
      size == getSize(payload)
  IN IF size = 0 THEN m2
     ELSE LET m3 == linkMostRU(m2, id)
          IN IF m3.panicked THEN m3
             ELSE trimCache([m3 EXCEPT !.c.size = @ + size])

\* mutant: a hit does not promote the entry
relinkNever(m, e) == m

\* the hit path of Get, lines 266-283
relink(m, e) ==
  IF m.heap[e].younger = Nil THEN m
  ELSE LET m1 == IF m.heap[e].older # Nil
                 THEN [m EXCEPT !.heap[m.heap[e].older].younger = m.heap[e].younger]
                 ELSE [m EXCEPT !.c.leastRU = m.heap[e].younger]
           m2 == [m1 EXCEPT !.heap[m1.heap[e].younger].older = m1.heap[e].older]
           m3 == [m2 EXCEPT !.heap[e].older = m2.c.mostRU]
           m4 == [m3 EXCEPT !.c.mostRU = e]
           m5 == [m4 EXCEPT !.heap[e].younger = Nil]
       IN IF m5.heap[e].older = Nil THEN Fault(m5)
          ELSE [m5 EXCEPT !.heap[m5.heap[e].older].younger = e]

\* the body of Delete, lines 290-296
directDelete(m, id) ==
  IF id \in m.c.entries
  THEN LET m1 == safeOnPurge(m, id, EXPLICITDELETE)
       IN IF getSize(m1.heap[id].payload) # 0 THEN removeEntry(m1, id) ELSE m1
  ELSE m

\* Entries no longer in the map are garbage: nothing refers to them
\* (dangling records the contrary), so their slot is cleared.
Collect(m) ==
  [k \in DOMAIN m.heap |-> IF k \in m.c.entries THEN m.heap[k] ELSE NoEntry]

\* ---------------------------------------------------------- sync.RWMutex
Unlocked == [writer |-> Nil, readers |-> {}]
\* mutant: Lock does not wait for the readers
CanLockPastReaders(l) == l.writer = Nil

\* mutant: Lock does not wait for the writer
CanLockPastWriter(l) == l.readers = {}

CanLock(l) == l.writer = Nil /\ l.readers = {}
CanRLock(l) == l.writer = Nil

\* ------------------------------------------------------------ history
Without(s, k) == SelectSeq(s, LAMBDA x : x # k)
LastN(s, n) == IF Len(s) <= n THEN s ELSE SubSeq(s, Len(s) - n + 1, Len(s))
Touch(s, k, n) == LastN(Append(Without(s, k), k), n)
Range(s) == {s[i] : i \in 1..Len(s)}

\* ------------------------------------------------------------------ Init
New(C) ==
  /\ \E maxsize \in C :
       /\ c = [size |-> 0, maxSize |-> maxsize, entries |-> {},
               mostRU |-> Nil, leastRU |-> Nil, onMiss |-> NilFn]
       /\ uniform = (maxsize > 0)
  /\ heap = [k \in Keys |-> NoEntry]
  /\ lock = Unlocked
  /\ pc = [p \in Procs |-> Idle]
  /\ panicked = FALSE
  /\ obs = NoObs
  /\ touched = <<>>

\* a store step: install machine m, release the write lock, return
Finish(p, m, o, t, u) ==
  /\ c' = m.c
  /\ heap' = Collect(m)
  /\ panicked' = m.panicked
  /\ lock' = Unlocked
  /\ pc' = [pc EXCEPT ![p] = Idle]
  /\ obs' = [o EXCEPT !.purges = m.purges, !.dangling = m.dangling]
  /\ uniform' = (u /\ ~m.panicked)
  /\ touched' = IF uniform' THEN t ELSE <<>>

\* ------------------------------------------------------------------- Set
Set(p, K, V) ==
  /\ ~panicked /\ pc[p].at = "idle" /\ CanLock(lock)
  /\ \E id \in K, v \in V :
       pc' = [pc EXCEPT ![p] = [Idle EXCEPT !.at = "Set", !.id = id, !.val = v]]
  /\ lock' = [lock EXCEPT !.writer = p]
  /\ obs' = NoObs
  /\ UNCHANGED <<c, heap, panicked, touched, uniform>>

\* mutant: the nil check comes after c.lock.Lock(), with no deferred Unlock
SetNilLocked(p) ==
  /\ ~panicked /\ pc[p].at = "idle" /\ CanLock(lock)
  /\ panicked' = TRUE
  /\ lock' = [lock EXCEPT !.writer = p]
  /\ obs' = [NoObs EXCEPT !.op = "SetNil"]
  /\ touched' = <<>> /\ uniform' = FALSE
  /\ UNCHANGED <<c, heap, pc>>

\* Set(id, nil) panics before taking the lock
SetNil(p) ==
  /\ ~panicked /\ pc[p].at = "idle"
  /\ panicked' = TRUE
  /\ obs' = [NoObs EXCEPT !.op = "SetNil"]
  /\ touched' = <<>> /\ uniform' = FALSE
  /\ UNCHANGED <<c, heap, lock, pc>>

SetBody(p) ==
  /\ ~panicked /\ pc[p].at = "Set"
  /\ LET id == pc[p].id
         v == pc[p].val
     IN Finish(p, directSet(Machine, id, v),
               [NoObs EXCEPT !.op = "Set", !.id = id, !.val = v],
               Touch(touched, id, c.maxSize),
               uniform /\ getSize(v) = 1)

\* ------------------------------------------------------------------- Get
Get(p, K) ==
  /\ ~panicked /\ pc[p].at = "idle" /\ CanLock(lock)
  /\ \E id \in K :
       pc' = [pc EXCEPT ![p] = [Idle EXCEPT !.at = "Get", !.id = id]]
  /\ lock' = [lock EXCEPT !.writer = p]
  /\ obs' = NoObs
  /\ UNCHANGED <<c, heap, panicked, touched, uniform>>

GetHit(p) ==
  /\ ~panicked /\ pc[p].at = "Get" /\ pc[p].id \in c.entries
  /\ LET id == pc[p].id
     IN Finish(p, relink(Machine, id),
               [NoObs EXCEPT !.op = "GetHit", !.id = id,
                             !.val = heap[id].payload],
               Touch(touched, id, c.maxSize), uniform)

\* mutant: the miss path keeps the lock (a deferred Unlock)
GetMissLocked(p) ==
  /\ ~panicked /\ pc[p].at = "Get" /\ pc[p].id \notin c.entries
  /\ pc' = [pc EXCEPT ![p].at = "handleCacheMiss"]
  /\ obs' = NoObs
  /\ touched' = <<>> /\ uniform' = FALSE
  /\ UNCHANGED <<c, heap, lock, panicked>>

\* the miss: unlock and go on in handleCacheMiss
GetMiss(p) ==
  /\ ~panicked /\ pc[p].at = "Get" /\ pc[p].id \notin c.entries
  /\ lock' = Unlocked
  /\ pc' = [pc EXCEPT ![p].at = "handleCacheMiss"]
  /\ obs' = NoObs
  /\ touched' = <<>> /\ uniform' = FALSE
  /\ UNCHANGED <<c, heap, panicked>>

\* c.lock.RLock()
MissRLock(p) ==
  /\ ~panicked /\ pc[p].at = "handleCacheMiss" /\ CanRLock(lock)
  /\ lock' = [lock EXCEPT !.readers = @ \cup {p}]
  /\ pc' = [pc EXCEPT ![p].at = "readOnMiss"]
  /\ obs' = NoObs
  /\ UNCHANGED <<c, heap, panicked, touched, uniform>>

\* mutant: the RUnlock is deferred, the handler runs under the read lock
MissReadDeferred(p) ==
  /\ ~panicked /\ pc[p].at = "readOnMiss"
  /\ IF c.onMiss = NilFn
     THEN /\ pc' = [pc EXCEPT ![p] = Idle]
          /\ lock' = [lock EXCEPT !.readers = @ \ {p}]
          /\ obs' = [NoObs EXCEPT !.op = "GetMiss", !.id = pc[p].id,
                                  !.err = ErrNotFound]
     ELSE /\ pc' = [pc EXCEPT ![p].at = "onmiss"]
          /\ lock' = lock
          /\ obs' = [NoObs EXCEPT !.op = "invoke", !.id = pc[p].id]
  /\ UNCHANGED <<c, heap, panicked, touched, uniform>>

\* onmiss := c.onMiss; RUnlock; without a handler return ErrNotFound,
\* else call the handler
MissRead(p) ==
  /\ ~panicked /\ pc[p].at = "readOnMiss"
  /\ lock' = [lock EXCEPT !.readers = @ \ {p}]
  /\ IF c.onMiss = NilFn
     THEN /\ pc' = [pc EXCEPT ![p] = Idle]
          /\ obs' = [NoObs EXCEPT !.op = "GetMiss", !.id = pc[p].id,
                                  !.err = ErrNotFound]
     ELSE /\ pc' = [pc EXCEPT ![p].at = "onmiss"]
          /\ obs' = [NoObs EXCEPT !.op = "invoke", !.id = pc[p].id]
  /\ UNCHANGED <<c, heap, panicked, touched, uniform>>

\* mutant: a value that comes with an error is stored all the same
HandlerFailsStores(p, V) ==
  /\ ~panicked /\ pc[p].at = "onmiss"
  /\ \E v \in V, err \in {HandlerErr} :
       Finish(p, directSet(Machine, pc[p].id, v),
              [NoObs EXCEPT !.op = "GetMiss", !.id = pc[p].id, !.val = v,
                            !.err = err, !.herr = err],
              <<>>, FALSE)

\* mutant: (nil, nil) from the handler is returned as it is
HandlerNilIsNoError(p, V) ==
  /\ ~panicked /\ pc[p].at = "onmiss"
  /\ \E v \in V \cup {NilVal}, err \in {NoErr, HandlerErr} :
       /\ err = NoErr => v = NilVal
       /\ obs' = [NoObs EXCEPT !.op = "GetMiss", !.id = pc[p].id, !.val = v,
                               !.err = err, !.herr = err]
  /\ pc' = [pc EXCEPT ![p] = Idle]
  /\ UNCHANGED <<c, heap, lock, panicked, touched, uniform>>

\* the handler returns an error (with or without a value), or (nil, nil);
\* herr is the error the handler returned, err the one Get returns
HandlerFails(p, V) ==
  /\ ~panicked /\ pc[p].at = "onmiss"
  /\ \E v \in V \cup {NilVal}, err \in {NoErr, HandlerErr} :
       /\ err = NoErr => v = NilVal
       /\ obs' = [NoObs EXCEPT !.op = "GetMiss", !.id = pc[p].id, !.val = v,
                               !.err = IF err = NoErr THEN ErrNotFound ELSE err,
                               !.herr = err]
  /\ pc' = [pc EXCEPT ![p] = Idle]
  /\ UNCHANGED <<c, heap, lock, panicked, touched, uniform>>

\* the handler returns a value and no error: go on to c.lock.Lock().
\* n is history: 1 in a caller that has not stored yet once the handler of
\* another Get of the same key has returned after its own did
HandlerReturns(p, V) ==
  /\ ~panicked /\ pc[p].at = "onmiss"
  /\ \E v \in V :
       pc' = [q \in Procs |->
                IF q = p
                THEN [pc[p] EXCEPT !.at = "storeLock", !.val = v, !.n = 0]
                ELSE IF pc[q].at \in {"storeLock", "store"} /\ pc[q].id = pc[p].id
                     THEN [pc[q] EXCEPT !.n = 1]
                     ELSE pc[q]]
  /\ obs' = NoObs
  /\ UNCHANGED <<c, heap, lock, panicked, touched, uniform>>

StoreLock(p) ==
  /\ ~panicked /\ pc[p].at = "storeLock" /\ CanLock(lock)
  /\ lock' = [lock EXCEPT !.writer = p]
  /\ pc' = [pc EXCEPT ![p].at = "store"]
  /\ obs' = NoObs
  /\ UNCHANGED <<c, heap, panicked, touched, uniform>>

\* mutant: the value is stored only if the key is still absent
StoreIfAbsent(p) ==
  /\ ~panicked /\ pc[p].at = "store"
  /\ LET id == pc[p].id
         v == pc[p].val
     IN Finish(p, IF id \in c.entries THEN Machine ELSE directSet(Machine, id, v),
               [NoObs EXCEPT !.op = "GetStore", !.id = id, !.val = v,
                             !.n = pc[p].n],
               <<>>, FALSE)

Store(p) ==
  /\ ~panicked /\ pc[p].at = "store"
  /\ LET id == pc[p].id
         v == pc[p].val
     IN Finish(p, directSet(Machine, id, v),
               [NoObs EXCEPT !.op = "GetStore", !.id = id, !.val = v,
                             !.n = pc[p].n],
               <<>>, FALSE)

\* ---------------------------------------------------------------- Delete
Delete(p, K) ==
  /\ ~panicked /\ pc[p].at = "idle" /\ CanLock(lock)
  /\ \E id \in K :
       /\ id \in c.entries => heap[id].purged < MaxPurged
       /\ pc' = [pc EXCEPT ![p] = [Idle EXCEPT !.at = "Delete", !.id = id]]
  /\ lock' = [lock EXCEPT !.writer = p]
  /\ obs' = NoObs
  /\ UNCHANGED <<c, heap, panicked, touched, uniform>>

DeleteBody(p) ==
  /\ ~panicked /\ pc[p].at = "Delete"
  /\ Finish(p, directDelete(Machine, pc[p].id),
            [NoObs EXCEPT !.op = "Delete", !.id = pc[p].id], <<>>, FALSE)

\* ---------------------------------------------------------------- OnPurge
\* safeOnPurge, called by directSet or Delete on the value stored under the
\* key, finds a NotifyPurge whose OnPurge calls a method of this cache.  The
\* caller is now inside the callback, at the c.lock.Lock() (or RLock) that
\* the method begins with, and still holds the write lock it took on entry;
\* sync.RWMutex is not reentrant, so nothing more happens in this goroutine
\* until the lock is free.
Reenters(p) ==
  /\ ~panicked /\ pc[p].at \in {"Set", "store", "Delete"}
  /\ pc[p].id \in c.entries /\ heap[pc[p].id].payload.kind = "sized"
  /\ LET why == IF pc[p].at = "Delete" THEN EXPLICITDELETE ELSE KEYCOLLISION
         m == safeOnPurge(Machine, pc[p].id, why)
     IN /\ heap' = m.heap
        /\ obs' = [NoObs EXCEPT !.op = "OnPurge", !.id = pc[p].id,
                                !.purges = m.purges]
  /\ pc' = [pc EXCEPT ![p].at = "OnPurge"]
  /\ touched' = <<>> /\ uniform' = FALSE
  /\ UNCHANGED <<c, lock, panicked>>

\* --------------------------------------------------------------- MaxSize
MaxSize(p, C) ==
  /\ ~panicked /\ pc[p].at = "idle" /\ CanLock(lock)
  /\ \E i \in C :
       pc' = [pc EXCEPT ![p] = [Idle EXCEPT !.at = "MaxSize", !.n = i]]
  /\ lock' = [lock EXCEPT !.writer = p]
  /\ obs' = NoObs
  /\ UNCHANGED <<c, heap, panicked, touched, uniform>>

MaxSizeBody(p) ==
  /\ ~panicked /\ pc[p].at = "MaxSize"
  /\ Finish(p, trimCache([Machine EXCEPT !.c.maxSize = pc[p].n]),
            [NoObs EXCEPT !.op = "MaxSize", !.n = pc[p].n], <<>>, FALSE)

\* ---------------------------------------------------------------- OnMiss
OnMiss(p) ==
  /\ ~panicked /\ pc[p].at = "idle" /\ CanLock(lock)
  /\ \E f \in {NilFn, Handler} :
       pc' = [pc EXCEPT ![p] = [Idle EXCEPT !.at = "OnMiss",
                                            !.n = IF f = NilFn THEN 0 ELSE 1]]
  /\ lock' = [lock EXCEPT !.writer = p]
  /\ obs' = NoObs
  /\ UNCHANGED <<c, heap, panicked, touched, uniform>>

OnMissBody(p) ==
  /\ ~panicked /\ pc[p].at = "OnMiss"
  /\ Finish(p, [Machine EXCEPT !.c.onMiss = IF pc[p].n = 0 THEN NilFn ELSE Handler],
            [NoObs EXCEPT !.op = "OnMiss"], touched, uniform)

\* ------------------------------------------------------------------ Size
Size(p) ==
  /\ ~panicked /\ pc[p].at = "idle" /\ CanRLock(lock)
  /\ lock' = [lock EXCEPT !.readers = @ \cup {p}]
  /\ pc' = [pc EXCEPT ![p] = [Idle EXCEPT !.at = "Size"]]
  /\ obs' = NoObs
  /\ UNCHANGED <<c, heap, panicked, touched, uniform>>

SizeBody(p) ==
  /\ ~panicked /\ pc[p].at = "Size"
  /\ lock' = [lock EXCEPT !.readers = @ \ {p}]
  /\ pc' = [pc EXCEPT ![p] = Idle]
  /\ obs' = [NoObs EXCEPT !.op = "Size", !.n = c.size]
  /\ UNCHANGED <<c, heap, panicked, touched, uniform>>

\* ------------------------------------------------------ NoConcurrentDupes
errClosed == "NoConcurrentDupes wrapper has been closed"

\* seq is history: this call began after a quit was sent and, since it
\* began, is the only one inside wrap ahead of the wait for a reply
WIdle == [at |-> "idle", id |-> Nil, rid |-> Nil, seq |-> FALSE]
NoCons == [at |-> "free", id |-> Nil, caller |-> Nil, old |-> Nil, gen |-> 0,
           val |-> 0, err |-> NoErr]
NoFull == [id |-> Nil, gen |-> 0, err |-> NoErr]
NoWObs == [op |-> "none", p |-> Nil, id |-> Nil, val |-> 0, err |-> NoErr,
           gen |-> 0]

\* NoConcurrentDupes(f): the channels are made and the main loop is started
DedupInit ==
  /\ opchan = "chan"
  /\ closed = FALSE
  /\ quit = 0
  /\ quits = 0
  /\ wpc = [p \in WrapCallers |-> WIdle]
  /\ ml = [at |-> "select", opchan |-> "chan", full |-> NoFull]
  /\ waiting = [k \in WrapKeys |-> Nil]
  /\ cons = [r \in Reqs |-> NoCons]
  /\ seeds = {}
  /\ calls = [k \in WrapKeys |-> 0]
  /\ produced = [k \in WrapKeys |-> [g \in 1..MaxCalls |-> "pending"]]
  /\ wobs = NoWObs
  /\ wpanicked = FALSE

RECURSIVE Sum(_, _)
Sum(f, S) == IF S = {} THEN 0
             ELSE LET x == CHOOSE y \in S : TRUE IN f[x] + Sum(f, S \ {x})

FreeReqs == {r \in Reqs : cons[r].at = "free"}
NewReq == CHOOSE r \in FreeReqs : \A q \in FreeReqs : r <= q

\* the owner sends a value down quit
SendQuit ==
  /\ ~wpanicked /\ quits < MaxQuits /\ quit = 0
  /\ quit' = 1
  /\ quits' = quits + 1
  /\ wobs' = NoWObs
  /\ UNCHANGED <<opchan, closed, wpc, ml, waiting, cons, seeds, calls, produced,
                 wpanicked>>

\* no other caller is inside wrap ahead of the wait for a reply
Alone(p) == \A q \in WrapCallers \ {p} : wpc[q].at \in {"idle", "recv"}

\* wrap(key), line 97, with opchan == nil
WrapClosed(p) ==
  /\ ~wpanicked /\ wpc[p].at = "idle" /\ opchan = "nil"
  /\ \E key \in WrapKeys :
       wobs' = [NoWObs EXCEPT !.op = "closed", !.p = p, !.id = key,
                              !.err = errClosed]
  /\ wpc' = [q \in WrapCallers |-> [wpc[q] EXCEPT !.seq = FALSE]]
  /\ UNCHANGED <<opchan, closed, quit, quits, ml, waiting, cons, seeds,
                 calls, produced, wpanicked>>

\* wrap(key), line 97, with opchan != nil: go on to the select
Wrap(p) ==
  /\ ~wpanicked /\ wpc[p].at = "idle" /\ opchan # "nil"
  /\ \E key \in WrapKeys :
       wpc' = [q \in WrapCallers |->
                 IF q = p
                 THEN [WIdle EXCEPT !.at = "select", !.id = key,
                                    !.seq = (quits > 0 /\ Alone(p))]
                 ELSE [wpc[q] EXCEPT !.seq = FALSE]]
  /\ wobs' = NoWObs
  /\ UNCHANGED <<opchan, closed, quit, quits, ml, waiting, cons, seeds, calls,
                 produced, wpanicked>>

\* the select of lines 100-106: case <-quit
WrapQuit(p) ==
  /\ ~wpanicked /\ wpc[p].at = "select" /\ quit > 0
  /\ quit' = quit - 1
  /\ wpc' = [wpc EXCEPT ![p].at = "close"]
  /\ wobs' = NoWObs
  /\ UNCHANGED <<opchan, closed, quits, ml, waiting, cons, seeds, calls, produced,
                 wpanicked>>

\* mutant: the select takes default with a value waiting in quit
WrapDefaultAnyway(p) ==
  /\ ~wpanicked /\ wpc[p].at = "select"
  /\ wpc' = [wpc EXCEPT ![p].at = "send"]
  /\ wobs' = NoWObs
  /\ UNCHANGED <<opchan, closed, quit, quits, ml, waiting, cons, seeds, calls,
                 produced, wpanicked>>

\* the select of lines 100-106: default
WrapDefault(p) ==
  /\ ~wpanicked /\ wpc[p].at = "select" /\ quit = 0
  /\ wpc' = [wpc EXCEPT ![p].at = "send"]
  /\ wobs' = NoWObs
  /\ UNCHANGED <<opchan, closed, quit, quits, ml, waiting, cons, seeds, calls,
                 produced, wpanicked>>

\* close(opchan); closing a nil or a closed channel panics
WrapClose(p) ==
  /\ ~wpanicked /\ wpc[p].at = "close"
  /\ IF opchan = "nil" \/ closed
     THEN wpanicked' = TRUE /\ UNCHANGED <<closed, wpc>>
     ELSE /\ closed' = TRUE
          /\ wpc' = [wpc EXCEPT ![p].at = "setnil"]
          /\ UNCHANGED wpanicked
  /\ wobs' = NoWObs
  /\ UNCHANGED <<opchan, quit, quits, ml, waiting, cons, seeds, calls, produced>>

\* opchan = nil; return nil, errClosed
WrapSetNil(p) ==
  /\ ~wpanicked /\ wpc[p].at = "setnil"
  /\ opchan' = "nil"
  /\ wpc' = [wpc EXCEPT ![p] = WIdle]
  /\ wobs' = [NoWObs EXCEPT !.op = "closed", !.p = p, !.id = wpc[p].id,
                            !.err = errClosed]
  /\ UNCHANGED <<closed, quit, quits, ml, waiting, cons, seeds, calls, produced,
                 wpanicked>>

\* opchan <- reqGet{key, replychan} on a closed channel panics
WrapSendClosed(p) ==
  /\ ~wpanicked /\ wpc[p].at = "send" /\ opchan = "chan" /\ closed
  /\ wpanicked' = TRUE
  /\ wobs' = NoWObs
  /\ UNCHANGED <<opchan, closed, quit, quits, wpc, ml, waiting, cons, seeds,
                 calls, produced>>

\* mutant: a seed is launched only when no invocation at all is running
LaunchWhenNoneRuns(inprogress) == ~inprogress /\ seeds = {}

\* mutant: a seed is launched for every request
LaunchAlways(inprogress) == TRUE

\* line 48: launch a seed unless a call for the key is in progress
Launch(inprogress) == ~inprogress

\* The main loop receives caller p's request (lines 39-70): the send of line
\* 108 meets the receive of line 39; a consumer and, if no call for the key
\* is in progress, a seed are launched.  (A send on the nil opchan never
\* meets a receive: the caller stays where it is.)
Accept(p) ==
  /\ ~wpanicked /\ wpc[p].at = "send" /\ opchan = "chan" /\ ~closed
  /\ ml.at = "select" /\ ml.opchan = "chan"
  /\ FreeReqs # {}
  /\ LET id == wpc[p].id
         oldreplychan == waiting[id]
         seed == Launch(oldreplychan # Nil)
         gen == IF seed THEN calls[id] + 1 ELSE calls[id]
     IN /\ seed => Sum(calls, WrapKeys) < MaxCalls
        /\ waiting' = [waiting EXCEPT ![id] = NewReq]
        /\ calls' = [calls EXCEPT ![id] = gen]
        /\ seeds' = IF seed
                    THEN seeds \cup {[id |-> id, gen |-> gen, at |-> "f", err |-> NoErr]}
                    ELSE seeds
        /\ cons' = [cons EXCEPT ![NewReq] =
                      [at |-> "recv", id |-> id, caller |-> p,
                       old |-> oldreplychan, gen |-> gen, val |-> 0,
                       err |-> NoErr]]
        /\ wpc' = [wpc EXCEPT ![p].at = "recv", ![p].rid = NewReq]
  /\ wobs' = NoWObs
  /\ UNCHANGED <<opchan, closed, quit, quits, ml, produced, wpanicked>>

\* line 39-43: the receive from the closed opchan
MainClosed ==
  /\ ~wpanicked /\ ml.at = "select" /\ ml.opchan = "chan" /\ closed
  /\ ml' = [ml EXCEPT !.opchan = "nil"]
  /\ wobs' = NoWObs
  /\ UNCHANGED <<opchan, closed, quit, quits, wpc, waiting, cons, seeds, calls,
                 produced, wpanicked>>

\* line 54: f returns in a seed, which goes on to send on donechan
SeedReturns(s) ==
  /\ ~wpanicked /\ s \in seeds /\ s.at = "f"
  /\ \E err \in {NoErr, HandlerErr} :
       /\ seeds' = (seeds \ {s}) \cup {[s EXCEPT !.at = "send", !.err = err]}
       /\ produced' = [produced EXCEPT ![s.id][s.gen] = err]
  /\ wobs' = NoWObs
  /\ UNCHANGED <<opchan, closed, quit, quits, wpc, ml, waiting, cons, calls,
                 wpanicked>>

\* line 71: the main loop receives a seed's reply from donechan
Done(s) ==
  /\ ~wpanicked /\ s \in seeds /\ s.at = "send" /\ ml.at = "select"
  /\ seeds' = seeds \ {s}
  /\ ml' = [ml EXCEPT !.at = "deliver",
                      !.full = [id |-> s.id, gen |-> s.gen, err |-> s.err]]
  /\ wobs' = NoWObs
  /\ UNCHANGED <<opchan, closed, quit, quits, wpc, waiting, cons, calls, produced,
                 wpanicked>>

\* mutant: the key stays in waiting after the reply was sent
DeliverKeepsRecord ==
  /\ ~wpanicked /\ ml.at = "deliver"
  /\ LET r == waiting[ml.full.id]
     IN /\ r # Nil /\ cons[r].at = "recv"
        /\ cons' = [cons EXCEPT ![r].at = "deliver", ![r].val = ml.full.gen,
                                ![r].err = ml.full.err]
  /\ ml' = [ml EXCEPT !.full = NoFull, !.at = "select"]
  /\ wobs' = NoWObs
  /\ UNCHANGED <<opchan, closed, quit, quits, wpc, waiting, seeds, calls,
                 produced, wpanicked>>

\* lines 72-77: the reply goes to the newest consumer of the key, the key
\* leaves waiting, and the loop ends when nothing more can come.  (With no
\* channel under the key the send blocks for ever.)
Deliver ==
  /\ ~wpanicked /\ ml.at = "deliver"
  /\ LET r == waiting[ml.full.id]
     IN /\ r # Nil /\ cons[r].at = "recv"
        /\ cons' = [cons EXCEPT ![r].at = "deliver", ![r].val = ml.full.gen,
                                ![r].err = ml.full.err]
  /\ waiting' = [waiting EXCEPT ![ml.full.id] = Nil]
  /\ ml' = [ml EXCEPT !.full = NoFull,
                      !.at = IF ml.opchan = "nil" /\ \A k \in WrapKeys : waiting'[k] = Nil
                             THEN "exit" ELSE "select"]
  /\ wobs' = NoWObs
  /\ UNCHANGED <<opchan, closed, quit, quits, wpc, seeds, calls, produced,
                 wpanicked>>

\* lines 60-63 and 109-110: the consumer passes the reply to its caller,
\* which returns it
ConsumerReply(r) ==
  /\ ~wpanicked /\ cons[r].at = "deliver"
  /\ wpc[cons[r].caller].at = "recv" /\ wpc[cons[r].caller].rid = r
  /\ wpc' = [wpc EXCEPT ![cons[r].caller] = WIdle]
  /\ wobs' = [op |-> "return", p |-> cons[r].caller, id |-> cons[r].id,
              val |-> cons[r].val, err |-> cons[r].err, gen |-> cons[r].gen]
  /\ cons' = [cons EXCEPT ![r] = IF cons[r].old = Nil THEN NoCons
                                 ELSE [@ EXCEPT !.at = "forward", !.caller = Nil]]
  /\ UNCHANGED <<opchan, closed, quit, quits, ml, waiting, seeds, calls, produced,
                 wpanicked>>

\* lines 64-68: the consumer forwards the reply to the next listener
ConsumerForward(r) ==
  /\ ~wpanicked /\ cons[r].at = "forward" /\ cons[cons[r].old].at = "recv"
  /\ cons' = [cons EXCEPT ![cons[r].old].at = "deliver",
                          ![cons[r].old].val = cons[r].val,
                          ![cons[r].old].err = cons[r].err,
                          ![r] = NoCons]
  /\ wobs' = NoWObs
  /\ UNCHANGED <<opchan, closed, quit, quits, wpc, ml, waiting, seeds, calls,
                 produced, wpanicked>>

\* --------------------------------------------------- ThrottleConcurrency
TIdle == [at |-> "idle", res |-> "none"]
NoTObs == [op |-> "none", p |-> Nil, res |-> "none"]

\* ThrottleConcurrency(f, maxconcurrent): block = make(chan int, maxconcurrent)
ThrottleInit(L) ==
  /\ limit \in L
  /\ block = 0
  /\ tpc = [p \in WrapCallers |-> TIdle]
  /\ tobs = NoTObs

\* the wrapper is called and comes to the send on block
Throttled(p) ==
  /\ tpc[p].at = "idle"
  /\ tpc' = [tpc EXCEPT ![p].at = "acquire"]
  /\ tobs' = NoTObs
  /\ UNCHANGED <<limit, block>>

\* mutant: the channel is made one slot short
CanSendOneLess(n, cap) == n + 1 < cap

\* mutant: the send goes through with the buffer full
CanSendOneMore(n, cap) == n <= cap

\* a send on a channel of capacity cap holding n values goes through (no
\* goroutine ever receives from block while it is empty)
CanSend(n, cap) == n < cap

\* block <- 58008, then f(key) is called
Acquire(p) ==
  /\ tpc[p].at = "acquire" /\ CanSend(block, limit)
  /\ block' = block + 1
  /\ tpc' = [tpc EXCEPT ![p].at = "f"]
  /\ tobs' = NoTObs
  /\ UNCHANGED limit

\* f returns a value, nothing or an error
FReturns(p) ==
  /\ tpc[p].at = "f"
  /\ \E res \in {"value", "nothing", "error"} :
       tpc' = [tpc EXCEPT ![p].at = "release", ![p].res = res]
  /\ tobs' = NoTObs
  /\ UNCHANGED <<limit, block>>

\* mutant: the slot is given back only when f produced a value
ReleaseOnValue(p) ==
  /\ tpc[p].at = "release" /\ block > 0
  /\ block' = IF tpc[p].res = "value" THEN block - 1 ELSE block
  /\ tpc' = [tpc EXCEPT ![p] = TIdle]
  /\ tobs' = [op |-> "return", p |-> p, res |-> tpc[p].res]
  /\ UNCHANGED limit

\* <-block; return res, err
Release(p) ==
  /\ tpc[p].at = "release" /\ block > 0
  /\ block' = block - 1
  /\ tpc' = [tpc EXCEPT ![p] = TIdle]
  /\ tobs' = [op |-> "return", p |-> p, res |-> tpc[p].res]
  /\ UNCHANGED limit

\* -------------------------------------------------------- specifications
\* the cache, one caller
Init == New(Caps) /\ DedupInit /\ ThrottleInit({0}) /\ ti = 0

Next ==
  /\ \E p \in {1} :
       \/ Set(p, Keys, Values) \/ SetNil(p) \/ SetBody(p)
       \/ Get(p, Keys) \/ GetHit(p) \/ GetMiss(p)
       \/ MissRLock(p) \/ MissRead(p)
       \/ HandlerFails(p, Values) \/ HandlerReturns(p, Values)
       \/ StoreLock(p) \/ Store(p)
       \/ Delete(p, Keys) \/ DeleteBody(p)
       \/ MaxSize(p, Caps) \/ MaxSizeBody(p)
       \/ OnMiss(p) \/ OnMissBody(p)
       \/ Size(p) \/ SizeBody(p)
  /\ UNCHANGED <<dedupVars, throttleVars, testVars>>

Spec == Init /\ [][Next]_vars

\* the cache, several callers at once, over fewer keys and sizes
InitConc == New(ConcCaps) /\ DedupInit /\ ThrottleInit({0}) /\ ti = 0

NextConc ==
  /\ \E p \in Procs :
       \/ Set(p, ConcKeys, ConcValues) \/ SetNil(p) \/ SetBody(p)
       \/ Get(p, ConcKeys) \/ GetHit(p) \/ GetMiss(p)
       \/ MissRLock(p) \/ MissRead(p)
       \/ HandlerFails(p, ConcValues) \/ HandlerReturns(p, ConcValues)
       \/ StoreLock(p) \/ Store(p)
       \/ Delete(p, ConcKeys) \/ DeleteBody(p)
       \/ MaxSize(p, ConcCaps) \/ MaxSizeBody(p)
       \/ OnMiss(p) \/ OnMissBody(p)
       \/ Size(p) \/ SizeBody(p)
  /\ UNCHANGED <<dedupVars, throttleVars, testVars>>

SpecConc == InitConc /\ [][NextConc]_vars

\* the cache and one caller, storing values whose OnPurge calls the cache
InitReenter == New(ConcCaps) /\ DedupInit /\ ThrottleInit({0}) /\ ti = 0

NextReenter ==
  /\ \E p \in {1} :
       \/ Set(p, ConcKeys, ConcValues) \/ SetNil(p) \/ SetBody(p)
       \/ Get(p, ConcKeys) \/ GetHit(p) \/ GetMiss(p)
       \/ MissRLock(p) \/ MissRead(p)
       \/ HandlerFails(p, ConcValues) \/ HandlerReturns(p, ConcValues)
       \/ StoreLock(p) \/ Store(p)
       \/ Delete(p, ConcKeys) \/ DeleteBody(p)
       \/ MaxSize(p, ConcCaps) \/ MaxSizeBody(p)
       \/ OnMiss(p) \/ OnMissBody(p)
       \/ Size(p) \/ SizeBody(p)
       \/ Reenters(p)
  /\ UNCHANGED <<dedupVars, throttleVars, testVars>>

SpecReenter == InitReenter /\ [][NextReenter]_vars

\* a handler wrapped by NoConcurrentDupes and its callers
InitDedup == New({0}) /\ DedupInit /\ ThrottleInit({0}) /\ ti = 0

NextDedup ==
  /\ \/ SendQuit
     \/ \E p \in WrapCallers :
          \/ WrapClosed(p) \/ Wrap(p) \/ WrapQuit(p) \/ WrapDefault(p)
          \/ WrapClose(p) \/ WrapSetNil(p) \/ WrapSendClosed(p) \/ Accept(p)
     \/ MainClosed \/ Deliver
     \/ \E s \in seeds : SeedReturns(s) \/ Done(s)
     \/ \E r \in Reqs : ConsumerReply(r) \/ ConsumerForward(r)
  /\ UNCHANGED <<cacheVars, throttleVars, testVars>>

SpecDedup == InitDedup /\ [][NextDedup]_vars

\* the same with the scheduling the Go runtime gives: a goroutine that can
\* take a step takes one (the callers inside wrap, the main loop, the
\* consumers, the seeds once f has returned), and f returns.  Whether a quit
\* is sent and whether wrap is called is left to the program.
FairDedup ==
  /\ \A p \in WrapCallers :
        /\ WF_dedupVars(WrapQuit(p)) /\ WF_dedupVars(WrapDefault(p))
        /\ WF_dedupVars(WrapClose(p)) /\ WF_dedupVars(WrapSetNil(p))
        /\ WF_dedupVars(WrapSendClosed(p)) /\ WF_dedupVars(Accept(p))
  /\ WF_dedupVars(MainClosed) /\ WF_dedupVars(Deliver)
  /\ \A k \in WrapKeys :
        /\ WF_dedupVars(\E s \in seeds : s.id = k /\ SeedReturns(s))
        /\ WF_dedupVars(\E s \in seeds : s.id = k /\ Done(s))
  /\ \A r \in Reqs : WF_dedupVars(ConsumerReply(r)) /\ WF_dedupVars(ConsumerForward(r))

SpecDedupFair == InitDedup /\ [][NextDedup]_vars /\ FairDedup

\* the cache and one goroutine whose miss handler calls the cache: seat 1 is
\* the goroutine's call of the cache, seat 2 the call the handler makes, for
\* another key, while seat 1 is in the handler (line 216); the handler
\* returns once the call it made has returned
InHandler == pc[1].at = "onmiss"
OtherKeys == ConcKeys \ {pc[1].id}

InitHandler == New(ConcCaps) /\ DedupInit /\ ThrottleInit({0}) /\ ti = 0

NextHandler ==
  /\ \/ Set(1, ConcKeys, ConcValues) \/ SetBody(1)
     \/ Get(1, ConcKeys) \/ GetHit(1) \/ GetMiss(1)
     \/ MissRLock(1) \/ MissRead(1)
     \/ (pc[2].at = "idle" /\ HandlerFails(1, ConcValues))
     \/ (pc[2].at = "idle" /\ HandlerReturns(1, ConcValues))
     \/ StoreLock(1) \/ Store(1)
     \/ Delete(1, ConcKeys) \/ DeleteBody(1)
     \/ MaxSize(1, ConcCaps) \/ MaxSizeBody(1)
     \/ OnMiss(1) \/ OnMissBody(1)
     \/ (InHandler /\ Set(2, OtherKeys, ConcValues)) \/ SetBody(2)
     \/ (InHandler /\ Get(2, OtherKeys)) \/ GetHit(2) \/ GetMiss(2)
     \/ MissRLock(2) \/ MissRead(2)
     \/ HandlerFails(2, ConcValues) \/ HandlerReturns(2, ConcValues)
     \/ StoreLock(2) \/ Store(2)
     \/ (InHandler /\ Delete(2, OtherKeys)) \/ DeleteBody(2)
  /\ UNCHANGED <<dedupVars, throttleVars, testVars>>

\* the goroutine keeps running: the call the handler made goes on whenever
\* it can, and the handler that call invoked returns
FairHandler ==
  /\ WF_cacheVars(SetBody(2)) /\ WF_cacheVars(DeleteBody(2))
  /\ WF_cacheVars(GetHit(2)) /\ WF_cacheVars(GetMiss(2))
  /\ WF_cacheVars(MissRLock(2)) /\ WF_cacheVars(MissRead(2))
  /\ WF_cacheVars(HandlerFails(2, ConcValues) \/ HandlerReturns(2, ConcValues))
  /\ WF_cacheVars(StoreLock(2)) /\ WF_cacheVars(Store(2))

SpecHandler == InitHandler /\ [][NextHandler]_vars /\ FairHandler

\* a handler wrapped by ThrottleConcurrency and its callers
InitThrottle == New({0}) /\ DedupInit /\ ThrottleInit(Limits) /\ ti = 0

NextThrottle ==
  /\ \E p \in WrapCallers :
       Throttled(p) \/ Acquire(p) \/ FReturns(p) \/ Release(p)
  /\ UNCHANGED <<cacheVars, dedupVars, testVars>>

SpecThrottle == InitThrottle /\ [][NextThrottle]_vars

\* every invocation of f returns and a goroutine that can receive from
\* block does; a sender parked on the full channel waits in the channel's
\* first-in first-out queue of senders and is handed the slot a receive
\* frees, so a send that can go through again and again does go through
FairThrottle ==
  \A p \in WrapCallers :
     /\ SF_throttleVars(Acquire(p))
     /\ WF_throttleVars(FReturns(p))
     /\ WF_throttleVars(Release(p))

SpecThrottleFair == InitThrottle /\ [][NextThrottle]_vars /\ FairThrottle

\* TestSize: New(100), Set(strconv.Itoa(i), varsize(i)) for i = 1..14,
\* Size(), Get(strconv.Itoa(i)) for i = 0..14; here for every capacity
\* within CapSlack of the test's, and with a MaxSize call at the end
TestKeys == 1..TestSizeKeys
TestCaps == (TestSizeCap - CapSlack)..(TestSizeCap + CapSlack)
AfterSets == TestSizeKeys + 1
AfterGets == AfterSets + 1 + TestSizeKeys + 1

InitTest ==
  /\ \E maxsize \in TestCaps :
       c = [size |-> 0, maxSize |-> maxsize, entries |-> {},
            mostRU |-> Nil, leastRU |-> Nil, onMiss |-> NilFn]
  /\ uniform = FALSE /\ touched = <<>>
  /\ heap = [k \in TestKeys |-> NoEntry]
  /\ lock = Unlocked
  /\ pc = [p \in Procs |-> Idle]
  /\ panicked = FALSE
  /\ obs = NoObs
  /\ DedupInit /\ ThrottleInit({0})
  /\ ti = 1

NextTest ==
  /\ \/ ti \in TestKeys /\ Set(1, {ti}, {VarSize(ti)}) /\ UNCHANGED ti
     \/ SetBody(1) /\ ti' = ti + 1
     \/ ti = AfterSets /\ Size(1) /\ UNCHANGED ti
     \/ SizeBody(1) /\ ti' = ti + 1
     \/ /\ ti > AfterSets /\ ti < AfterGets
        /\ Get(1, {ti - AfterSets - 1}) /\ UNCHANGED ti
     \/ GetHit(1) /\ ti' = ti + 1
     \/ GetMiss(1) /\ UNCHANGED ti
     \/ MissRLock(1) /\ UNCHANGED ti
     \/ MissRead(1) /\ ti' = ti + 1
     \/ ti = AfterGets /\ MaxSize(1, 0..(TestSizeCap + CapSlack)) /\ UNCHANGED ti
     \/ MaxSizeBody(1) /\ ti' = ti + 1
  /\ UNCHANGED <<dedupVars, throttleVars>>

SpecTest == InitTest /\ [][NextTest]_vars

\* ------------------------------------------------------------ properties
TypeOK ==
  /\ c.entries \subseteq Keys
  /\ c.maxSize \in Caps
  /\ lock.writer \in Procs \cup {Nil}

\* removeEntry never leaves a pointer to the entry it removed, so one heap
\* slot per key holds every reachable cacheEntry
NoDangling == ~obs.dangling

\* the recency list walked from leastRU along younger
RECURSIVE Walk(_, _, _)
Walk(h, e, n) ==
  IF e = Nil \/ n = 0 THEN <<>> ELSE <<e>> \o Walk(h, h[e].younger, n - 1)

Order == Walk(heap, c.leastRU, MaxKey + 1)
OrderNext == Walk(heap', c'.leastRU, MaxKey + 1)

PurgeSet(o) == {o.purges[i] : i \in 1..Len(o.purges)}

\* C1: after completed Set, Delete and MaxSize calls (values of size >= 0),
\* whenever the capacity is > 0 the size reported by Size() is <= the capacity.
C1_SizeWithinCapacity ==
  (~panicked /\ c.maxSize > 0) =>
     /\ c.size <= c.maxSize
     /\ obs.op = "Size" => obs.n = c.size

\* a Set has just trimmed more than one entry from a bounded cache
C1_Witness ==
  /\ ~panicked /\ obs.op = "Set" /\ c.maxSize > 0 /\ c.size = c.maxSize
  /\ Cardinality({ev \in PurgeSet(obs) : ev.why = CACHEFULL}) >= 2

C3_GetPromotes ==
  [][\A p \in Procs :
       (/\ pc[p].at = "Get" /\ pc'[p].at = "idle" /\ pc[p].id \in c.entries
        /\ getSize(heap[pc[p].id].payload) # 0 /\ ~panicked')
       => IF c.mostRU = pc[p].id
          THEN OrderNext = Order
          ELSE /\ c'.mostRU = pc[p].id
               /\ Without(OrderNext, pc[p].id) = Without(Order, pc[p].id)]_vars

\* C4 (as the claim states it, for a value that fits the capacity): the
\* Get that missed stores the handler's value V under K and returns it, so
\* that the next Get(K) is a hit on V.
C4_MissStores ==
  (/\ obs.op = "GetStore" /\ ~panicked
   /\ (c.maxSize <= 0 \/ getSize(obs.val) <= c.maxSize))
  => obs.id \in c.entries /\ heap[obs.id].payload = obs.val

\* C5: a caller that is on the miss path outside handleCacheMiss's locked
\* sections, in particular one blocked in the handler, holds neither the
\* write lock nor a read lock.
C5_HandlerHoldsNoLock ==
  \A p \in Procs :
     pc[p].at \in {"handleCacheMiss", "onmiss", "storeLock"} =>
        lock.writer # p /\ p \notin lock.readers

\* while one caller is blocked in the handler another caller's Set completed
C5_Witness ==
  \E p \in Procs : pc[p].at = "onmiss" /\ obs.op = "Set" /\ obs.id # pc[p].id

Mutators == {p \in Procs : pc[p].at \in {"Set", "Get", "Delete", "MaxSize", "OnMiss", "store"}}
Readers == {p \in Procs : pc[p].at \in {"Size", "readOnMiss"}}

\* C6: at most one caller is inside a mutating section of the store, and no
\* reading section overlaps a mutating one.
C6_MutualExclusion ==
  /\ Cardinality(Mutators) <= 1
  /\ Mutators # {} => Readers = {}
  /\ \A p \in Mutators : lock.writer = p

\* one caller stores a miss result while another waits for the lock to store
C6_Witness ==
  \E p, q \in Procs : pc[p].at = "store" /\ pc[q].at = "storeLock"

InF(k) == {s \in seeds : s.id = k /\ s.at = "f"}

\* C7: under NoConcurrentDupes at most one invocation of f per key is in
\* progress, and every caller returns the (value, error) of the invocation
\* that was in progress for its key when its request was taken: callers that
\* ask while one invocation is blocked all get that invocation's result.
C7_OneCallPerKey ==
  /\ \A k \in WrapKeys : Cardinality(InF(k)) <= 1
  /\ wobs.op = "return" =>
        /\ wobs.val = wobs.gen
        /\ wobs.err = produced[wobs.id][wobs.val]

\* every caller waits for the one invocation of f made for the key
C7_Witness ==
  \E k \in WrapKeys :
     /\ calls[k] = 1 /\ Cardinality(InF(k)) = 1
     /\ \A p \in WrapCallers : wpc[p].at = "recv" /\ wpc[p].id = k

Running == {p \in WrapCallers : tpc[p].at = "f"}

\* C8: under ThrottleConcurrency with limit L >= 1 at most L invocations of
\* f execute at the same time.
C8_AtMostLimit ==
  limit >= 1 => Cardinality(Running) <= limit

\* the limit is reached and a further caller is held back
C8_Witness ==
  /\ limit >= 1 /\ Cardinality(Running) = limit
  /\ \E p \in WrapCallers : tpc[p].at = "acquire"

\* C9: OnPurge receives KEYCOLLISION exactly for the value a Set (or the
\* store of a miss) replaces under its key, EXPLICITDELETE exactly for the
\* value of the key given to Delete, CACHEFULL exactly for what trimming
\* evicts.
C9_PurgeReasons ==
  [][LET o == obs'
         replaces == o.op \in {"Set", "GetStore"} /\ o.id \in c.entries
                     /\ heap[o.id].payload.kind = "sized"
         deletes == o.op = "Delete" /\ o.id \in c.entries
                    /\ heap[o.id].payload.kind = "sized"
     IN /\ \A i \in 1..Len(o.purges) :
             LET ev == o.purges[i]
                 replaced == replaces /\ i = 1 /\ ev.id = o.id
                 deleted == deletes /\ i = 1 /\ ev.id = o.id
                 trimmed == /\ o.op \in {"Set", "GetStore", "MaxSize"}
                            /\ ~replaced /\ c'.maxSize > 0
             IN /\ ev.why = KEYCOLLISION <=> replaced
                /\ ev.why = EXPLICITDELETE <=> deleted
                /\ ev.why = CACHEFULL <=> trimmed
        /\ (replaces \/ deletes) => Len(o.purges) >= 1]_vars

\* a Set replaced a value and trimming then evicted another one
C9_Witness ==
  /\ obs.op = "Set" /\ Len(obs.purges) >= 2
  /\ obs.purges[1].why = KEYCOLLISION /\ obs.purges[2].why = CACHEFULL

\* C10: OnPurge is invoked once per stored value, when the value leaves the
\* cache: no value still in the key mapping has been notified, and no
\* value is notified a second time.
C10_PurgedOnceOnLeaving ==
  /\ \A k \in c.entries : heap[k].purged = 0
  /\ \A ev \in PurgeSet(obs) : ev.n = 1

\* C11: when Delete(K) has returned, K is not in the key mapping, whatever
\* the size of the value it held, so that Get(K) without a miss handler
\* reports ErrNotFound until K is Set again.
C11_DeleteRemoves ==
  (obs.op = "Delete" /\ ~panicked) => obs.id \notin c.entries

\* a stored value of size 0: it is in the key mapping and not in the list
ZeroSized == {k \in c.entries : getSize(heap[k].payload) = 0}

\* C12: a stored value of size 0 is never purged with reason CACHEFULL (an
\* eviction under the key of a Set is of the new value, of size other than
\* 0) and adds nothing to the size; it stays in the key mapping, unnotified,
\* through every operation but a Set or Delete of its own key, and a Get of
\* its key returns it.
C12_ZeroSizeStays ==
  [][ /\ \A k \in ZeroSized :
           \/ obs'.id = k /\ obs'.op \in {"Set", "GetStore", "Delete"}
           \/ /\ k \in c'.entries /\ heap'[k] = heap[k]
              /\ \A ev \in PurgeSet(obs') : ev.id # k
              /\ (pc[1].at = "Get" /\ pc[1].id = k) =>
                    /\ obs'.op = "GetHit" /\ obs'.val = heap[k].payload
                    /\ ~panicked'
      /\ \A ev \in PurgeSet(obs') :
            (ev.why = CACHEFULL /\ (ev.id \in ZeroSized \/ ev.id = obs'.id)) =>
               /\ ev.id = obs'.id /\ obs'.op \in {"Set", "GetStore"}
               /\ getSize(obs'.val) # 0
      /\ (obs'.op \in {"Set", "GetStore"} /\ getSize(obs'.val) = 0) =>
            c'.size = c.size - (IF obs'.id \in c.entries
                                THEN getSize(heap[obs'.id].payload) ELSE 0) ]_vars

\* a value of size 0 is still stored, unnotified, after a Set of another key
\* that evicted an entry from a full cache
C12_Witness ==
  /\ obs.op = "Set" /\ ~panicked /\ c.maxSize > 0 /\ c.size = c.maxSize
  /\ \E ev \in PurgeSet(obs) : ev.why = CACHEFULL
  /\ \E k \in ZeroSized : k # obs.id /\ heap[k].purged = 0
\* C13: when the miss handler returns an error for key K, the Get returns
\* that error and leaves the store as it was: K is still absent and the
\* handler still installed, and a Get of an absent key with a handler
\* installed always invokes it, so the next Get(K) invokes it again.
C13_HandlerErrorNotStored ==
  [][ /\ (pc[1].at = "onmiss" /\ pc'[1].at = "idle" /\ obs'.herr # NoErr) =>
           /\ obs'.op = "GetMiss" /\ obs'.id = pc[1].id
           /\ obs'.err = obs'.herr
           /\ c' = c /\ heap' = heap
           /\ pc[1].id \notin c'.entries /\ c'.onMiss # NilFn
      /\ (pc[1].at = "readOnMiss" /\ c.onMiss # NilFn) =>
           /\ obs'.op = "invoke" /\ obs'.id = pc[1].id
           /\ pc'[1].at = "onmiss" ]_vars

\* the handler returned a value together with an error; the cache, which
\* holds other keys, did not take it
C13_Witness ==
  /\ obs.op = "GetMiss" /\ obs.herr = HandlerErr /\ obs.val # NilVal
  /\ c.entries # {} /\ obs.id \notin c.entries

\* the caller is on the miss path of Get, before any store
Missing(p) ==
  \/ pc[p].at = "Get" /\ pc[p].id \notin c.entries
  \/ pc[p].at \in {"handleCacheMiss", "readOnMiss", "onmiss"}

\* C14: a Get of an absent key returns ErrNotFound when no handler is
\* installed and when the handler returns (nil, nil), and no step of such a
\* Get changes the entries, the size or the recency order.
C14_NotFoundChangesNothing ==
  [][ /\ (Missing(1) /\ pc'[1].at # "storeLock" /\ obs'.herr = NoErr) =>
           /\ c' = c /\ heap' = heap /\ OrderNext = Order
      /\ (pc[1].at = "readOnMiss" /\ c.onMiss = NilFn) =>
           /\ pc'[1].at = "idle" /\ obs'.op = "GetMiss"
           /\ obs'.err = ErrNotFound /\ obs'.val = NilVal
      /\ (pc[1].at = "onmiss" /\ pc'[1].at = "idle" /\ obs'.herr = NoErr) =>
           /\ obs'.op = "GetMiss"
           /\ obs'.err = ErrNotFound /\ obs'.val = NilVal ]_vars

\* the handler of a cache holding two linked entries returned (nil, nil)
C14_Witness ==
  /\ obs.op = "GetMiss" /\ obs.err = ErrNotFound /\ c.onMiss = Handler
  /\ Len(Order) >= 2 /\ obs.id \notin c.entries
\* C15: Set(K, nil) panics before it touches the cache: the entries, the
\* size, the recency order and the lock are as they were and no OnPurge is
\* called.
C15_SetNilTouchesNothing ==
  [][ obs'.op = "SetNil" =>
        /\ panicked'
        /\ c' = c /\ heap' = heap /\ OrderNext = Order
        /\ lock' = lock
        /\ obs'.purges = <<>> ]_vars

\* Set(K, nil) on a cache that holds linked entries
C15_Witness ==
  /\ obs.op = "SetNil" /\ panicked /\ lock = Unlocked
  /\ c.size > 0 /\ Len(Order) >= 2
\* the sizes of the stored values, and their sum over a set of keys
SizeOf == [k \in Keys |-> getSize(heap[k].payload)]
StoredSize(S) == Sum(SizeOf, S)

\* C16 (for a value V2 of a size other than 0 that fits the capacity, the
\* values that enter the recency list and are not trimmed for their own
\* size): Set(K, V2) on a key holding V1 leaves K in the key mapping with
\* value V2, as the most recently used entry, and the size before trimming,
\* that is the size after it plus the sizes of the entries trimmed, is the
\* old size plus size(V2) - size(V1).
C16_SetReplaces ==
  [][ LET K == pc[1].id
          V2 == pc[1].val
          trimmed == (c.entries \ c'.entries) \ {K}
      IN (/\ pc[1].at = "Set" /\ K \in c.entries /\ ~panicked'
          /\ getSize(V2) # 0
          /\ (c.maxSize <= 0 \/ getSize(V2) <= c.maxSize))
         => /\ K \in c'.entries /\ heap'[K].payload = V2
            /\ c'.mostRU = K
            /\ c'.size + StoredSize(trimmed)
                 = c.size + getSize(V2) - getSize(heap[K].payload) ]_vars

\* C17: whenever no call is in the middle of the store, c.size, which is
\* what Size() returns, is the sum of getSize over the values in the key
\* mapping.
C17_SizeIsSum ==
  ~panicked =>
     /\ c.size = StoredSize(c.entries)
     /\ obs.op = "Size" => obs.n = StoredSize(c.entries)

\* Size() on a cache holding three values, one of them of size 0
C17_Witness ==
  /\ obs.op = "Size" /\ obs.n >= 2 /\ ~panicked
  /\ ZeroSized # {} /\ Cardinality(c.entries) = 3

\* C18: whenever no call is in the middle of the store, the recency list
\* walked from leastRU holds exactly the keys of the key mapping whose
\* values have a size other than 0, each once.
C18_ListIsMapping ==
  ~panicked =>
     /\ Range(Order) = c.entries \ ZeroSized
     /\ Len(Order) = Cardinality(c.entries \ ZeroSized)

\* the callers inside a section of the store that c.lock guards
Inside == {p \in Procs : pc[p].at \in {"Set", "Get", "store", "Delete", "MaxSize",
                                       "OnMiss", "Size", "readOnMiss"}}

\* C19: OnPurge is only ever called by the one caller that holds the write
\* lock, with no other caller inside a locked section, so that two
\* callbacks never run at the same time and all of them are totally ordered.
C19_PurgesUnderLock ==
  [][ obs'.purges # <<>> =>
        \E p \in Procs :
           /\ lock.writer = p /\ lock.readers = {}
           /\ pc[p].at \in {"Set", "store", "Delete", "MaxSize"}
           /\ pc'[p].at = "idle"
           /\ Inside = {p} ]_vars

\* a caller's OnPurge calls have just been made while another caller, whose
\* store will replace a value that takes notifications, waits for the lock
C19_Witness ==
  /\ obs.purges # <<>>
  /\ \E q \in Procs : /\ pc[q].at = "storeLock" /\ pc[q].id \in c.entries
                       /\ heap[pc[q].id].payload.kind = "sized"

\* C20: a caller whose purge callback calls back into the cache can go on:
\* the lock the method called takes first (Lock in Get, Set, Delete and
\* MaxSize, RLock in Size) is free for it, so the callback returns.
C20_CallbackCanEnter ==
  \A p \in Procs : pc[p].at = "OnPurge" => CanRLock(lock)

\* an invocation of f for key k is running or its reply is not yet delivered
InFlight(k) == (\E s \in seeds : s.id = k) \/ ml.full.id = k

\* C21: when the reply of the invocation for key K has been delivered, K
\* leaves waiting; a request for a key with no invocation in flight starts
\* a new invocation of f, and the caller returns the result of that new
\* invocation.
C21_NewGenerationAfterDelivery ==
  [][ /\ (ml.at = "deliver" /\ ml'.at # "deliver") =>
           /\ waiting'[ml.full.id] = Nil
           /\ ml'.full.id # ml.full.id
           /\ \A s \in seeds' : s.id # ml.full.id
      /\ \A p \in WrapCallers :
           (wpc[p].at = "send" /\ wpc'[p].at = "recv" /\ ~InFlight(wpc[p].id)) =>
              /\ calls'[wpc[p].id] = calls[wpc[p].id] + 1
              /\ \E s \in seeds' : /\ s.id = wpc[p].id /\ s.at = "f"
                                    /\ s.gen = calls'[wpc[p].id]
              /\ cons'[wpc'[p].rid].gen = calls'[wpc[p].id]
      /\ wobs'.op = "return" =>
           /\ wobs'.val = wobs'.gen
           /\ wobs'.err = produced[wobs'.id][wobs'.val] ]_vars

\* a caller returns the result of the second invocation made for its key,
\* after the first one's result was delivered
C21_Witness ==
  /\ wobs.op = "return" /\ wobs.val = 2 /\ calls[wobs.id] = 2
  /\ produced[wobs.id][1] # "pending"

\* C22: a caller whose request the main loop has taken returns.
C22_AcceptedCallsReturn ==
  \A p \in WrapCallers : (wpc[p].at = "recv") ~> (wpc[p].at = "idle")

\* C23: a call of the wrapper made after a quit was sent, with no other
\* call overlapping it ahead of the wait for a reply, sends no request and
\* invokes no handler: it returns nil and errClosed, and no goroutine
\* panics; so does every call made once opchan is nil.
C23_ClosedAfterQuit ==
  [][ \A p \in WrapCallers :
        /\ (wpc[p].seq /\ wpc'[p] # wpc[p]) =>
              /\ wpc'[p].at \notin {"send", "recv"}
              /\ ~wpanicked' /\ calls' = calls /\ seeds' = seeds
              /\ wpc'[p].at = "idle" =>
                    /\ wobs'.op = "closed" /\ wobs'.p = p
                    /\ wobs'.err = errClosed /\ wobs'.val = 0
        /\ (/\ wpc[p].at = "idle" /\ quits > 0 /\ Alone(p)
            /\ (wpc'[p].at # "idle" \/ (wobs'.op = "closed" /\ wobs'.p = p))) =>
              \/ wpc'[p].at = "select" /\ wpc'[p].seq /\ quit > 0
              \/ /\ wpc'[p].at = "idle" /\ wobs'.err = errClosed
                 /\ wobs'.val = 0 /\ calls' = calls /\ seeds' = seeds ]_vars

\* such a call has taken the quit and closed the request channel while an
\* earlier call waits for its reply
C23_Witness ==
  \E p, q \in WrapCallers :
     /\ wpc[p].seq /\ wpc[p].at = "setnil" /\ closed
     /\ wpc[q].at = "recv"

\* C24: a caller that waits for its reply when the request channel gets
\* closed returns.
C24_InFlightCompletes ==
  \A p \in WrapCallers : (wpc[p].at = "recv" /\ closed) ~> (wpc[p].at = "idle")

\* C25: under ThrottleConcurrency with limit L >= 1, when every invocation
\* of f returns, every call comes to invoke f and every invocation is
\* followed by the call's return; the slot is given back whatever f
\* produced, so with no call in progress block is empty.
C25_ThrottleProgress ==
  /\ [](limit >= 1 =>
          /\ block = Cardinality({p \in WrapCallers : tpc[p].at \in {"f", "release"}})
          /\ (\A p \in WrapCallers : tpc[p].at = "idle") => block = 0)
  /\ \A p \in WrapCallers :
       /\ (limit >= 1 /\ tpc[p].at = "acquire") ~> (tpc[p].at = "f")
       /\ (limit >= 1 /\ tpc[p].at = "f") ~> (tobs.op = "return" /\ tobs.p = p)

\* a call whose f failed has returned and left every slot free, with the
\* limit at 1 and another call waiting for the slot
C25_Witness ==
  /\ limit = 1 /\ tobs.op = "return" /\ tobs.res = "error" /\ block = 0
  /\ \E q \in WrapCallers : tpc[q].at = "acquire"

\* C26: while the capacity is <= 0 no OnPurge call has the reason
\* CACHEFULL, a Set stores its value and removes no other key, and a Get of
\* a key of the key mapping returns the value stored under it.
C26_UnboundedKeepsAll ==
  [][ (c.maxSize <= 0 /\ c'.maxSize <= 0) =>
        /\ \A ev \in PurgeSet(obs') : ev.why # CACHEFULL
        /\ \A p \in Procs :
             /\ (pc[p].at = "Set" /\ pc'[p].at = "idle") =>
                   /\ c.entries \subseteq c'.entries
                   /\ pc[p].id \in c'.entries
                   /\ heap'[pc[p].id].payload = pc[p].val
             /\ (pc[p].at = "Get" /\ pc[p].id \in c.entries /\ pc'[p].at = "idle") =>
                   /\ ~panicked'
                   /\ obs'.op = "GetHit" /\ obs'.val = heap[pc[p].id].payload ]_vars

TestOrder == Walk(heap, c.leastRU, TestSizeKeys + 1)
TestOrderNext == Walk(heap', c'.leastRU, TestSizeKeys + 1)

C28_FourEvicted ==
  (c.maxSize = TestSizeCap /\ ti >= AfterSets /\ ti <= AfterGets) =>
     c.entries = 5..14

\* C28 (amended): with the capacity 100 and keys 1..14 set in order with
\* sizes 1..14, keys 1..3 are evicted and exactly keys 4..14 remain.
C28_ThreeEvicted ==
  (c.maxSize = TestSizeCap /\ ti >= AfterSets /\ ti <= AfterGets) =>
     /\ TestKeys \ c.entries = 1..3
     /\ c.entries = 4..14

\* the test's Get of key 4 was a hit
C28_Witness ==
  c.maxSize = TestSizeCap /\ obs.op = "GetHit" /\ obs.id = 4

\* C29: when the single caller calls Get(K) right after its Set(K, V)
\* returned, with size(V) <= capacity or capacity <= 0, K is in the key
\* mapping with the value V and the hit path of Get runs to its end, so the
\* Get returns V and the miss handler is not invoked.
C29_GetAfterSet ==
  [][ (/\ obs.op = "Set" /\ ~panicked
       /\ (c.maxSize <= 0 \/ getSize(obs.val) <= c.maxSize)
       /\ pc'[1].at = "Get" /\ pc'[1].id = obs.id)
      => /\ obs.id \in c.entries
         /\ heap[obs.id].payload = obs.val
         /\ ~relink(Machine, obs.id).panicked ]_vars

\* C30 (as the claim states it): a Set of a value whose size exceeds the
\* capacity > 0, into a cache that holds nothing else, returns with the
\* entry stored under its key and the size above the capacity.
C30_OversizedStays ==
  [][ (/\ pc[1].at = "Set" /\ pc'[1].at = "idle" /\ c.entries = {}
       /\ c.maxSize > 0 /\ getSize(pc[1].val) > c.maxSize)
      => /\ ~panicked'
         /\ pc[1].id \in c'.entries /\ heap'[pc[1].id].payload = pc[1].val
         /\ c'.size > c'.maxSize ]_vars

\* C30 (amended): a Set of a value whose size exceeds the capacity > 0,
\* into a cache that holds nothing else, returns without error, but
\* trimming evicts the new entry itself, with the reason CACHEFULL: the
\* cache is empty again, with the size 0.
C30_OversizedEvicted ==
  [][ (/\ pc[1].at = "Set" /\ pc'[1].at = "idle" /\ c.entries = {}
       /\ c.maxSize > 0 /\ getSize(pc[1].val) > c.maxSize)
      => /\ ~panicked'
         /\ c'.entries = {} /\ c'.size = 0
         /\ c'.leastRU = Nil /\ c'.mostRU = Nil
         /\ pc[1].val.kind = "sized" =>
              \E ev \in PurgeSet(obs') : ev.id = pc[1].id /\ ev.why = CACHEFULL ]_vars

\* a value of size 2 was set in an empty cache of capacity 1, which is
\* empty again
C30_Witness ==
  /\ obs.op = "Set" /\ ~panicked /\ c.maxSize = 1 /\ getSize(obs.val) = 2
  /\ c.entries = {} /\ Len(obs.purges) = 1

\* the machine directSet hands to trimCache (lines 179-204)
PreTrim(m, id, payload) ==
  LET m1 == IF id \in m.c.entries
            THEN removeEntry(safeOnPurge(m, id, KEYCOLLISION), id)
            ELSE m
      m2 == [m1 EXCEPT !.heap[id] = [NoEntry EXCEPT !.payload = payload],
                       !.c.entries = @ \cup {id}]
      m3 == linkMostRU(m2, id)
  IN IF m3.panicked THEN m3 ELSE [m3 EXCEPT !.c.size = @ + getSize(payload)]

\* each time the condition of trimCache's loop holds there is a least
\* recently used entry, and purging it makes the size smaller
RECURSIVE TrimOK(_)
TrimOK(m) ==
  IF m.c.maxSize <= 0 \/ m.c.size <= m.c.maxSize THEN TRUE
  ELSE /\ m.c.leastRU # Nil
       /\ purgeLRU(m).c.size < m.c.size
       /\ TrimOK(purgeLRU(m))

\* C31: every trim, the one of a Set, of the store of a miss and of
\* MaxSize, finds an entry to evict whenever its loop condition holds and
\* each eviction makes the size smaller, so it ends without fault.
C31_TrimTerminates ==
  [][ \A p \in Procs :
        /\ (pc[p].at = "MaxSize" /\ pc'[p].at = "idle") =>
              /\ TrimOK([Machine EXCEPT !.c.maxSize = pc[p].n])
              /\ ~panicked'
        /\ (/\ pc[p].at \in {"Set", "store"} /\ pc'[p].at = "idle"
            /\ getSize(pc[p].val) # 0
            /\ ~PreTrim(Machine, pc[p].id, pc[p].val).panicked) =>
              /\ TrimOK(PreTrim(Machine, pc[p].id, pc[p].val))
              /\ ~panicked' ]_vars

\* C32: while a miss handler runs for key K, the Get, Set or Delete it
\* calls on the same cache for another key finds the lock free at each of
\* its Lock and RLock calls, and the call returns (unless a fault ended the
\* program).
C32_HandlerCanEnter ==
  /\ []((InHandler /\ pc[2].at = "idle") => CanLock(lock))
  /\ [](pc[2].at = "storeLock" => CanLock(lock))
  /\ [](pc[2].at = "handleCacheMiss" => CanRLock(lock))
  /\ (pc[2].at # "idle") ~> (pc[2].at = "idle" \/ panicked)

\* the Get the handler made for another key missed, invoked the handler in
\* turn and stored its value, all while the first miss is being handled
C32_Witness ==
  /\ InHandler /\ pc[2].at = "idle" /\ ~panicked
  /\ obs.op = "GetStore" /\ obs.id # pc[1].id /\ obs.id \in c.entries

\* the recency list walked from mostRU along older
RECURSIVE WalkBack(_, _, _)
WalkBack(h, e, n) ==
  IF e = Nil \/ n = 0 THEN <<>> ELSE <<e>> \o WalkBack(h, h[e].older, n - 1)

Reverse(s) == [j \in 1..Len(s) |-> s[Len(s) + 1 - j]]

\* C33: after every completed operation mostRU and leastRU are both nil or
\* both non-nil, mostRU has no younger and leastRU no older neighbour,
\* p.older.younger = p for every entry p reached from mostRU, and the walk
\* along older from mostRU lists the keys of the walk along younger from
\* leastRU in reverse, ending at leastRU.
C33_ListWellFormed ==
  ((\A p \in Procs : pc[p].at = "idle") /\ ~panicked) =>
     LET back == WalkBack(heap, c.mostRU, MaxKey + 1)
     IN /\ (c.mostRU = Nil) <=> (c.leastRU = Nil)
        /\ c.mostRU # Nil => heap[c.mostRU].younger = Nil
        /\ c.leastRU # Nil => heap[c.leastRU].older = Nil
        /\ \A j \in 1..Len(back) :
             heap[back[j]].older # Nil => heap[heap[back[j]].older].younger = back[j]
        /\ Len(back) > 0 => back[Len(back)] = c.leastRU
        /\ Reverse(back) = Order

Pending(k) == {p \in Procs : pc[p].at \in {"storeLock", "store"} /\ pc[p].id = k}

Holding == {p \in WrapCallers : tpc[p].at \in {"f", "release"}}

\* C35: under ThrottleConcurrency a call waits at the send on block only
\* when exactly L calls hold a slot, and never more than L invocations of
\* f run.
C35_WaitsOnlyWhenFull ==
  /\ Cardinality(Running) <= limit
  /\ \A p \in WrapCallers :
       (tpc[p].at = "acquire" /\ ~ENABLED Acquire(p)) =>
          Cardinality(Holding) = limit

\* with more callers than the largest limit, as many invocations of f as
\* the limit allows run at once and one more call waits
C35_Witness ==
  /\ limit = MaxLimit /\ Cardinality(Running) = MaxLimit
  /\ Holding = Running
  /\ \E p \in WrapCallers : tpc[p].at = "acquire" /\ ~ENABLED Acquire(p)

\* C36: a request for a key with no call in progress launches an
\* invocation of f whatever invocations for other keys are running, and
\* nothing on the way of a reply waits for another key: the main loop can
\* always take a finished invocation's reply and hand it on, a consumer
\* can always pass its reply to its caller or to the next listener.
C36_OtherKeysGoOn ==
  /\ [][ \A p \in WrapCallers :
           (wpc[p].at = "send" /\ wpc'[p].at = "recv" /\ waiting[wpc[p].id] = Nil) =>
              \E s \in seeds' \ seeds : s.id = wpc[p].id /\ s.at = "f" ]_vars
  /\ [](~wpanicked =>
          /\ \A s \in seeds : s.at = "send" => ml.at \in {"select", "deliver"}
          /\ ml.at = "deliver" => ENABLED Deliver
          /\ \A r \in Reqs :
               /\ cons[r].at = "deliver" => ENABLED ConsumerReply(r)
               /\ cons[r].at = "forward" => ENABLED ConsumerForward(r))

\* a call for one key has returned its own invocation's result while the
\* invocation for another key, begun earlier, is still running with a
\* caller waiting for it
C36_Witness ==
  /\ wobs.op = "return" /\ calls[wobs.id] = 1 /\ wobs.val = 1
  /\ \E s \in seeds, q \in WrapCallers :
       /\ s.id # wobs.id /\ s.at = "f"
       /\ wpc[q].at = "recv" /\ wpc[q].id = s.id

\* C37: when Set is about to replace a value of size 0, the removal of the
\* old entry (the first step of directSet) leaves mostRU, leastRU and the
\* older and younger neighbours of every other entry as they were.
C37_ZeroRemovalKeepsList ==
  LET K == pc[1].id
      m1 == removeEntry(safeOnPurge(Machine, K, KEYCOLLISION), K)
  IN (/\ ~panicked /\ pc[1].at = "Set" /\ K \in c.entries
      /\ getSize(heap[K].payload) = 0)
     => /\ m1.c.mostRU = c.mostRU
        /\ m1.c.leastRU = c.leastRU
        /\ \A k \in c.entries \ {K} :
             /\ m1.heap[k].older = heap[k].older
             /\ m1.heap[k].younger = heap[k].younger

\* C38: the store of a miss handler's value V1 that finds a value V2 under
\* the key (set by another caller while the handler ran) replaces it: V2 is
\* purged with the reason KEYCOLLISION, and V1 is the value left under the
\* key, the one a Get of the key returns from then on.
C38_HandlerValueReplaces ==
  [][ \A p \in Procs :
        (/\ pc[p].at = "store" /\ pc'[p].at = "idle"
         /\ pc[p].id \in c.entries) =>
           /\ ~panicked'
           /\ heap[pc[p].id].payload.kind = "sized" =>
                 \E ev \in PurgeSet(obs') :
                    ev.id = pc[p].id /\ ev.why = KEYCOLLISION
           /\ pc[p].id \in c'.entries
           /\ heap'[pc[p].id].payload = pc[p].val ]_vars

\* C39: once the request channel is closed the main loop comes to its end
\* (or the program has ended in a panic), whether or not an invocation of f
\* was in flight when the channel was closed.
C39_LoopTerminates == closed ~> (ml.at = "exit" \/ wpanicked)

\* C40: whatever the interleaving of wrapper calls with the shutdown, no
\* caller sends on the closed request channel (the panic) and no caller
\* stands at its send with the request channel set to nil, where it would
\* block for ever.
C40_NoRacySend ==
  /\ ~wpanicked
  /\ \A p \in WrapCallers : ~(wpc[p].at = "send" /\ opchan = "nil")
====
